---- MODULE Spec2Model ----
(***************************************************************************)
(* One process invocation of the argh demo calculator: the command line is *)
(* parsed by argh::from_env into DemoCli, main matches on the subcommand,  *)
(* the selected operation computes and prints one line, the process exits. *)
(***************************************************************************)
EXTENDS Integers, Sequences, FiniteSets, TLC

VARIABLES argv, variant, overflow_checks, pc, cli, stdout, stderr, exit_status

vars == <<argv, variant, overflow_checks, pc, cli, stdout, stderr, exit_status>>

\* ---------------------------------------------------------------- integers
\* Ranges of the declared option types.
U16_MAX == 65535
I16_MAX == 32767
I16_MIN == -32768

\* ------------------------------------------------------------------ tokens
\* A command-line token is a piece of text: `dashes` leading '-' characters,
\* then letters (`name`), then decimal digits (`digits`).
\* "--num1" = Tok(2, "num1", <<>>), "add" = Tok(0, "add", <<>>),
\* "70000" = Tok(0, "", <<7,0,0,0,0>>), "-5" = Tok(1, "", <<5>>), "--" = Tok(2, "", <<>>).
Tok(d, n, ds) == [dashes |-> d, name |-> n, digits |-> ds]

Word(n) == Tok(0, n, <<>>)
Flag(n) == Tok(2, n, <<>>)

\* Decimal digits of a natural number, most significant first.
RECURSIVE Digits(_)
Digits(n) == IF n < 10 THEN <<n>> ELSE Append(Digits(n \div 10), n % 10)

\* The text "{}" produces for an integer (core::fmt::Display).
Display(n) == IF n < 0 THEN Tok(1, "", Digits(-n)) ELSE Tok(0, "", Digits(n))

\* ------------------------------------------------- <u16|i16>::from_str
Lo(ty) == IF ty = "u16" THEN 0 ELSE I16_MIN
Hi(ty) == IF ty = "u16" THEN U16_MAX ELSE I16_MAX

ParseOk(v) == [ok |-> TRUE, val |-> v, kind |-> "Ok"]
ParseErr(k) == [ok |-> FALSE, val |-> 0, kind |-> k]

\* Faulty digit loop: wrapping_mul / wrapping_add in place of the checked ones.
RECURSIVE Accumulate_wrapping(_, _, _, _)
Accumulate_wrapping(ty, ds, acc, sign) ==
    IF ds = <<>> THEN ParseOk(acc)
    ELSE Accumulate_wrapping(ty, Tail(ds),
            ((acc * 10 + sign * Head(ds) - Lo(ty)) % (U16_MAX + 1)) + Lo(ty), sign)

\* Digit loop of from_str_radix: checked_mul(10), then checked_add / checked_sub.
RECURSIVE Accumulate(_, _, _, _)
Accumulate(ty, ds, acc, sign) ==
    IF ds = <<>> THEN ParseOk(acc)
    ELSE LET m == acc * 10
             r == m + sign * Head(ds)
             over == IF sign = 1 THEN "PosOverflow" ELSE "NegOverflow"
         IN  IF m < Lo(ty) \/ m > Hi(ty) THEN ParseErr(over)
             ELSE IF r < Lo(ty) \/ r > Hi(ty) THEN ParseErr(over)
             ELSE Accumulate(ty, Tail(ds), r, sign)

FromStr(ty, tok) ==
    IF tok.dashes = 0 /\ tok.name = "" /\ tok.digits = <<>> THEN ParseErr("Empty")
    ELSE IF tok.name # "" THEN ParseErr("InvalidDigit")
    ELSE IF ty = "u16"
         THEN IF tok.dashes > 0 THEN ParseErr("InvalidDigit")
              ELSE Accumulate(ty, tok.digits, 0, 1)
         ELSE IF tok.dashes > 1 \/ tok.digits = <<>> THEN ParseErr("InvalidDigit")
              ELSE Accumulate(ty, tok.digits, 0, IF tok.dashes = 1 THEN -1 ELSE 1)

\* ---------------------------------------------------------- declarations
\* The builds of the calculator: "main" is src/main.rs (add only, inline add);
\* "commands" is the variant whose subcommands live in commands/add.rs and
\* commands/sub.rs.
Variants == {"main", "commands"}

\* enum SubCommands: the subcommand names each variant declares.
MainSubCommands == {"add"}
CommandsSubCommands == {"add", "sub"}
SubCommands(v) == IF v = "main" THEN MainSubCommands ELSE CommandsSubCommands

\* --<field> of #[argh(option)]
LongName(field) == IF field = "num1" THEN Tok(2, "num", <<1>>) ELSE Tok(2, "num", <<2>>)

\* #[derive(FromArgs)] descriptors: option fields, their type, subcommands.
DemoCli(v) == [name |-> "", opts |-> {}, ty |-> "none", subs |-> SubCommands(v)]
AddOptions == [name |-> "add", opts |-> {"num1", "num2"}, ty |-> "u16", subs |-> {}]
SubOptions == [name |-> "sub", opts |-> {"num1", "num2"}, ty |-> "i16", subs |-> {}]
Command(n) == IF n = "add" THEN AddOptions ELSE SubOptions

\* ------------------------------------------------------------ argh parsing
NoArg == Tok(0, "", <<>>)
EmptySlots == [filled |-> {}, val |-> [f \in {"num1", "num2"} |-> 0]]

\* One piece of output on a stream: what it is, its text, and the names it lists.
Entry(k, t, ns) == [kind |-> k, text |-> t, names |-> ns]
NoOutput == Entry("none", <<>>, {})

\* Result of FromArgs::from_args: the parsed struct, or an EarlyExit that is
\* either the help text (status Ok) or an error message (status Err).
Parsed(sub, slots) ==
    [tag |-> "ok", sub |-> sub, num1 |-> slots.val["num1"], num2 |-> slots.val["num2"],
     output |-> NoOutput]
EarlyHelp(cmd) ==
    [tag |-> "help", sub |-> cmd.name, num1 |-> 0, num2 |-> 0,
     output |-> Entry("help", <<Word("Usage"), Word(cmd.name)>>, cmd.subs \cup cmd.opts)]
EarlyErr(m, a, ns) ==
    [tag |-> "err", sub |-> "", num1 |-> 0, num2 |-> 0,
     output |-> Entry("error", <<Word(m), a>>, ns)]

IsHelp(a) == a = Flag("help") \/ a = Word("help")

\* Faulty finish: absent options are not reported and default to 0.
Finish_unchecked(cmd, slots) ==
    IF cmd.subs # {}
    THEN EarlyErr("One of the following subcommands must be present", NoArg,
                  {"help"} \cup cmd.subs)
    ELSE Parsed(cmd.name, slots)

\* MissingRequirements::err_on_any, after the argument loop.
Finish(cmd, slots) ==
    IF cmd.subs # {}
    THEN EarlyErr("One of the following subcommands must be present", NoArg,
                  {"help"} \cup cmd.subs)
    ELSE IF cmd.opts \ slots.filled # {}
    THEN EarlyErr("Required options not provided", NoArg, cmd.opts \ slots.filled)
    ELSE Parsed(cmd.name, slots)

\* argh::parse_struct_args: the loop over the remaining arguments.
RECURSIVE ParseStructArgs(_, _, _, _, _)
ParseStructArgs(cmd, args, help, ended, slots) ==
    IF args = <<>> THEN (IF help THEN EarlyHelp(cmd) ELSE Finish(cmd, slots))
    ELSE
    LET a == Head(args)
        rest == Tail(args)
        fields == {f \in cmd.opts : LongName(f) = a}
    IN
    IF IsHelp(a) /\ ~ended THEN ParseStructArgs(cmd, rest, TRUE, ended, slots)
    ELSE IF a.dashes > 0 /\ ~ended THEN
        IF a = Flag("") THEN ParseStructArgs(cmd, rest, help, TRUE, slots)
        ELSE IF help THEN EarlyErr("Trailing arguments are not allowed after help", a, {})
        ELSE IF fields = {} THEN EarlyErr("Unrecognized argument", a, {})
        ELSE IF rest = <<>> THEN EarlyErr("No value provided for option", a, {})
        ELSE LET f == CHOOSE x \in fields : TRUE
                 r == FromStr(cmd.ty, Head(rest))
             IN  IF f \in slots.filled THEN EarlyErr("duplicate values provided", a, {})
                 ELSE IF ~r.ok THEN EarlyErr("Error parsing option", Head(rest), {r.kind})
                 ELSE ParseStructArgs(cmd, Tail(rest), help, ended,
                        [filled |-> slots.filled \cup {f},
                         val |-> [slots.val EXCEPT ![f] = r.val]])
    ELSE IF a.dashes = 0 /\ a.digits = <<>> /\ a.name \in cmd.subs
    THEN \* the subcommand parses the rest, with "help" prepended when it was asked
         ParseStructArgs(Command(a.name),
                         IF help THEN <<Word("help")>> \o rest ELSE rest,
                         FALSE, FALSE, EmptySlots)
    ELSE EarlyErr("Unrecognized argument", a, {})

\* DemoCli::from_args on the arguments after the program name.
FromArgs(v, args) == ParseStructArgs(DemoCli(v), args, FALSE, FALSE, EmptySlots)

\* ------------------------------------------------------------- operations
\* println!("{} OP {} = {}", num1, num2, result)
Line(num1, op, num2, result) ==
    Entry("result", <<Display(num1), Word(op), Display(num2), Word("="), Display(result)>>, {})

\* What a call does: the lines it prints, and whether it panicked.
Printed(line) == [out |-> <<line>>, panic |-> FALSE, msg |-> ""]
Panicked(m) == [out |-> <<>>, panic |-> TRUE, msg |-> m]

\* u16 + u16 and i16 - i16: the operands are evaluated before anything is
\* printed.  With overflow checks compiled in (debug profile) an overflow
\* panics; without them (release profile) the result wraps to 16 bits.
U16Add(a, b) ==
    IF a + b <= U16_MAX THEN ParseOk(a + b)
    ELSE IF overflow_checks THEN ParseErr("attempt to add with overflow")
    ELSE ParseOk((a + b) % (U16_MAX + 1))

I16Sub(a, b) ==
    IF a - b >= I16_MIN /\ a - b <= I16_MAX THEN ParseOk(a - b)
    ELSE IF overflow_checks THEN ParseErr("attempt to subtract with overflow")
    ELSE ParseOk(((a - b - I16_MIN) % (U16_MAX + 1)) + I16_MIN)

\* Faulty add: the wrong operator in the result.
add_minus(num1, num2) == Printed(Line(num1, "+", num2, num1 - num2))

\* Faulty add: the line is printed twice.
add_twice(num1, num2) ==
    LET r == U16Add(num1, num2)
    IN  IF r.ok THEN [out |-> <<Line(num1, "+", num2, r.val), Line(num1, "+", num2, r.val)>>,
                      panic |-> FALSE, msg |-> ""]
        ELSE Panicked(r.kind)

\* Faulty add: the operands are printed before the sum is computed.
add_print_first(num1, num2) ==
    LET r == U16Add(num1, num2)
    IN  IF r.ok THEN Printed(Line(num1, "+", num2, r.val))
        ELSE [out |-> <<Entry("partial", <<Display(num1), Word("+"), Display(num2)>>, {})>>,
              panic |-> TRUE, msg |-> r.kind]

\* fn add(num1: u16, num2: u16) of main.rs
add(num1, num2) ==
    LET r == U16Add(num1, num2)
    IN  IF r.ok THEN Printed(Line(num1, "+", num2, r.val)) ELSE Panicked(r.kind)

\* Faulty execute: num1 is used for both operands.
add_execute_same_operand(options) ==
    LET r == U16Add(options.num1, options.num1)
    IN  IF r.ok THEN Printed(Line(options.num1, "+", options.num1, r.val))
        ELSE Panicked(r.kind)

\* commands::add::execute
add_execute(options) ==
    LET r == U16Add(options.num1, options.num2)
    IN  IF r.ok THEN Printed(Line(options.num1, "+", options.num2, r.val))
        ELSE Panicked(r.kind)

\* Faulty execute: the operands of the subtraction are swapped.
sub_execute_swapped(options) ==
    LET r == I16Sub(options.num2, options.num1)
    IN  IF r.ok THEN Printed(Line(options.num1, "-", options.num2, r.val))
        ELSE Panicked(r.kind)

\* commands::sub::execute
sub_execute(options) ==
    LET r == I16Sub(options.num1, options.num2)
    IN  IF r.ok THEN Printed(Line(options.num1, "-", options.num2, r.val))
        ELSE Panicked(r.kind)

\* ------------------------------------------------------------------ inputs
Near == 1
MaxArgs == 4

Points == {0, I16_MIN, I16_MAX, U16_MAX}
Values == UNION {(p - Near)..(p + Near) : p \in Points} \cup {2, 3, 5, 70000}

Vocabulary ==
    {Word("add"), Word("sub"), Word("foo"), Word("help"), Flag("help"), Flag(""),
     LongName("num1"), LongName("num2"), Display(1), Display(70000)}

\* The operand texts tried: the decimal text of each value, and "07".
Operands == {Display(v) : v \in Values} \cup {Tok(0, "", <<0, 7>>)}

\* <subcommand> --num1 a --num2 b
Full(c, a, b) == <<Word(c), LongName("num1"), a, LongName("num2"), b>>

\* <subcommand> <option> a <option> b: the options in either order, or repeated.
TwoOptions ==
    {<<Word(c), LongName(f), a, LongName(g), b>> :
        c \in {"add", "sub"}, f \in {"num1", "num2"}, g \in {"num1", "num2"},
        a \in Operands, b \in Operands}

\* A full invocation with one more token put in at any place.
Inserted ==
    {SubSeq(inv, 1, k) \o <<t>> \o SubSeq(inv, k + 1, Len(inv)) :
        inv \in {Full(c, a, b) : c \in {"add", "sub"},
                                 a \in {Display(1), Display(70000)}, b \in {Display(1)}},
        k \in 0..5, t \in Vocabulary}

\* Every token sequence of at most MaxArgs tokens of the vocabulary.
Short == UNION {[1..n -> Vocabulary] : n \in 0..MaxArgs}

Invocations == TwoOptions \cup Inserted \cup Short

\* ----------------------------------------------------------- the process
NoCli == [tag |-> "none", sub |-> "", num1 |-> 0, num2 |-> 0, output |-> NoOutput]

Init ==
    /\ argv \in Invocations
    /\ variant \in Variants
    /\ overflow_checks \in BOOLEAN
    /\ pc = "start"
    /\ cli = NoCli
    /\ stdout = <<>>
    /\ stderr = <<>>
    /\ exit_status = -1

\* argh::from_env, parse succeeded: main goes on to the match.
FromEnvParsed ==
    /\ pc = "start"
    /\ FromArgs(variant, argv).tag = "ok"
    /\ cli' = FromArgs(variant, argv)
    /\ pc' = "match"
    /\ UNCHANGED <<argv, variant, overflow_checks, stdout, stderr, exit_status>>

\* argh::from_env, EarlyExit with status Ok: help on stdout, exit(0).
FromEnvHelp ==
    /\ pc = "start"
    /\ FromArgs(variant, argv).tag = "help"
    /\ cli' = FromArgs(variant, argv)
    /\ stdout' = Append(stdout, cli'.output)
    /\ exit_status' = 0
    /\ pc' = "exited"
    /\ UNCHANGED <<argv, variant, overflow_checks, stderr>>

\* Faulty error exit: the message is written but the status is 0.
FromEnvError_status0 ==
    /\ pc = "start"
    /\ FromArgs(variant, argv).tag = "err"
    /\ cli' = FromArgs(variant, argv)
    /\ stderr' = Append(stderr, cli'.output)
    /\ exit_status' = 0
    /\ pc' = "exited"
    /\ UNCHANGED <<argv, variant, overflow_checks, stdout>>

\* argh::from_env, EarlyExit with status Err: message on stderr, exit(1).
FromEnvError ==
    /\ pc = "start"
    /\ FromArgs(variant, argv).tag = "err"
    /\ cli' = FromArgs(variant, argv)
    /\ stderr' = Append(stderr, cli'.output)
    /\ exit_status' = 1
    /\ pc' = "exited"
    /\ UNCHANGED <<argv, variant, overflow_checks, stdout>>

\* The selected branch ran: its output, then normal return or panic (exit 101).
Ran(outcome) ==
    /\ stdout' = stdout \o outcome.out
    /\ stderr' = IF outcome.panic
                 THEN Append(stderr, Entry("panic", <<Word(outcome.msg)>>, {}))
                 ELSE stderr
    /\ exit_status' = IF outcome.panic THEN 101 ELSE 0
    /\ pc' = "exited"
    /\ UNCHANGED <<argv, variant, overflow_checks, cli>>

\* main.rs: match cli.subcommand { SubCommands::Add(options) => add(..) }
MainAdd ==
    /\ pc = "match" /\ variant = "main" /\ cli.sub = "add"
    /\ Ran(add(cli.num1, cli.num2))

\* commands variant: SubCommands::Add(options) => commands::add::execute(options)
CommandsAdd ==
    /\ pc = "match" /\ variant = "commands" /\ cli.sub = "add"
    /\ Ran(add_execute(cli))

\* commands variant: SubCommands::Sub(options) => commands::sub::execute(options)
CommandsSub ==
    /\ pc = "match" /\ variant = "commands" /\ cli.sub = "sub"
    /\ Ran(sub_execute(cli))

Next ==
    \/ FromEnvParsed
    \/ FromEnvHelp
    \/ FromEnvError
    \/ MainAdd
    \/ CommandsAdd
    \/ CommandsSub

Spec == Init /\ [][Next]_vars

\* ------------------------------------------------------- claim vocabulary
\* The number a decimal text denotes.
RECURSIVE Magnitude(_)
Magnitude(ds) ==
    IF ds = <<>> THEN 0 ELSE Magnitude(SubSeq(ds, 1, Len(ds) - 1)) * 10 + ds[Len(ds)]

IsDecimal(tok) == tok.name = "" /\ tok.dashes <= 1 /\ tok.digits # <<>>
Denote(tok) == IF tok.dashes = 1 THEN -Magnitude(tok.digits) ELSE Magnitude(tok.digits)

\* The invocation is exactly `<c> --num1 a --num2 b` with decimal a and b.
IsFull(c) ==
    /\ Len(argv) = 5
    /\ argv[1] = Word(c) /\ argv[2] = LongName("num1") /\ argv[4] = LongName("num2")
    /\ IsDecimal(argv[3]) /\ IsDecimal(argv[5])
OperandA == Denote(argv[3])
OperandB == Denote(argv[5])

Exited == pc = "exited"
ResultLines == {i \in DOMAIN stdout : stdout[i].kind = "result"}
InvokesSubcommand ==
    Len(argv) >= 1 /\ argv[1] \in {Word(c) : c \in SubCommands(variant)}
OptionAbsent ==
    \E f \in {"num1", "num2"} : \A i \in DOMAIN argv : argv[i] # LongName(f)
AsksHelp == \E i \in DOMAIN argv : IsHelp(argv[i])
Positionals == {i \in DOMAIN argv : argv[i].dashes = 0}
FirstPositional == argv[CHOOSE i \in Positionals : \A j \in Positionals : i <= j]
IsDeclared(tok) == tok \in {Word(c) : c \in SubCommands(variant)}
OutOfRangeAddValue ==
    /\ Len(argv) >= 1 /\ argv[1] = Word("add")
    /\ \E i \in 2..(Len(argv) - 1) :
          /\ argv[i] \in {LongName("num1"), LongName("num2")}
          /\ IsDecimal(argv[i + 1])
          /\ Denote(argv[i + 1]) \notin 0..U16_MAX

\* ------------------------------------------------------------------ claims
\* C1: `add --num1 a --num2 b` with a, b in 0..65535 and a + b <= 65535 ends
\* with exactly the line "a + b = s", s the mathematical sum, and exit status 0.
C1_AddPrintsSum ==
    (/\ IsFull("add")
     /\ OperandA \in 0..U16_MAX /\ OperandB \in 0..U16_MAX
     /\ OperandA + OperandB <= U16_MAX)
    => /\ pc \in {"start", "match"} => stdout = <<>>
       /\ Exited => /\ stdout = <<Line(OperandA, "+", OperandB, OperandA + OperandB)>>
                    /\ exit_status = 0

C1_Witness ==
    /\ Exited /\ argv = Full("add", Display(2), Display(3))
    /\ stdout = <<Line(2, "+", 3, 5)>> /\ exit_status = 0

C3_OutOfRangeRejected ==
    OutOfRangeAddValue
    => /\ pc # "match"
       /\ ResultLines = {}
       /\ Exited => exit_status # 0 /\ cli.tag = "err"

C3_Witness ==
    /\ Exited /\ argv = Full("add", Display(70000), Display(1))
    /\ exit_status = 1 /\ stdout = <<>>
    /\ stderr = <<Entry("error", <<Word("Error parsing option"), Display(70000)>>,
                        {"PosOverflow"})>>

C6_AddOverflowPanics ==
    (/\ IsFull("add")
     /\ OperandA \in 0..U16_MAX /\ OperandB \in 0..U16_MAX
     /\ OperandA + OperandB > U16_MAX
     /\ Exited)
    => exit_status # 0 /\ stdout = <<>>

\* C7: a subtraction of a, b in -32768..32767 whose difference is outside
\* -32768..32767 aborts with a panic and never prints a line.
C7_SubOverflowPanics ==
    (/\ variant = "commands" /\ IsFull("sub")
     /\ OperandA \in I16_MIN..I16_MAX /\ OperandB \in I16_MIN..I16_MAX
     /\ OperandA - OperandB \notin I16_MIN..I16_MAX
     /\ Exited)
    => exit_status # 0 /\ stdout = <<>>

\* C8: at most one arithmetic line is ever on stdout: after parsing exactly
\* one branch of the match can run, it prints at most once, and once the
\* process has exited nothing can happen any more.
C8_AtMostOneLine ==
    /\ Cardinality(ResultLines) <= 1
    /\ Len(stdout) <= 1
    /\ pc = "match" => stdout = <<>>
    /\ pc = "match" =>
         Cardinality({b \in {"MainAdd", "CommandsAdd", "CommandsSub"} :
            \/ b = "MainAdd" /\ ENABLED MainAdd
            \/ b = "CommandsAdd" /\ ENABLED CommandsAdd
            \/ b = "CommandsSub" /\ ENABLED CommandsSub}) = 1
    /\ Exited => ~ENABLED Next

C8_Witness ==
    /\ Exited /\ cli.tag = "ok" /\ Cardinality(ResultLines) = 1 /\ Len(stdout) = 1

\* C9: an arithmetic line is on stdout only in runs that end with exit status
\* 0; a run that ends with a non-zero status (parse failure or overflow
\* abort) has written nothing to stdout.
C9_OutputOnlyOnSuccess ==
    /\ ResultLines # {} => Exited /\ exit_status = 0
    /\ (Exited /\ exit_status # 0) => stdout = <<>>

C9_Witness ==
    /\ Exited /\ cli.tag = "ok" /\ exit_status = 101
    /\ stdout = <<>> /\ Len(stderr) = 1 /\ stderr[1].kind = "panic"

\* C10: on the same parsed options the inline add of main.rs and
\* commands::add::execute have the same outcome: the same printed line, or
\* the same panic.
C10_AddVariantsAgree ==
    (cli.tag = "ok" /\ cli.sub = "add")
    => add(cli.num1, cli.num2) = add_execute(cli)

C10_Witness ==
    /\ pc = "match" /\ cli.tag = "ok" /\ cli.sub = "add"
    /\ cli.num1 + cli.num2 > U16_MAX
    /\ add(cli.num1, cli.num2).panic /\ add_execute(cli).panic

====
